---- MODULE Spec2Model ----
(***************************************************************************)
(* nwc-otm (src/index.ts): a one-to-many Nostr Wallet Connect service.     *)
(* One upstream wallet, one balance per client, a table of pending         *)
(* invoices.  JavaScript runs one handler segment at a time: every action  *)
(* below is the code between two awaits.                                   *)
(***************************************************************************)
EXTENDS Integers, Sequences, FiniteSets, Bags, TLC

\* ---------------------------------------------------------------- bounds
MaxInFlight == 2      \* pay_invoice handlers awaiting the upstream wallet at once
MaxPay == 2           \* pay_invoice calls forwarded to the upstream wallet
MaxInv == 1           \* invoices the upstream wallet makes during the run
StartupTime == 2      \* wall clock, in seconds, when prunePending reads it
MaxBalance == 200     \* crash-and-restart runs: no further credit to a balance that reached it

\* ------------------------------------------------------------ input sets
Clients == {"A", "B"}
KeyOrder == <<"A", "B">>          \* insertion order of the keys of balances.json
None == 0                         \* an absent / falsy field (undefined, 0, "")
PayAmounts == {60, 150}           \* params.amount of pay_invoice
InvoiceOwnAmounts == {60}         \* amount encoded in the invoice being paid
MakeAmounts == {50}               \* params.amount of make_invoice
DescHashes == {None, 1}           \* params.description_hash of make_invoice
LookupOutcomes == {"error", "pending", "settled"} \* upstream.lookupInvoice throws, or the state it reports
MakeStates == {"pending"}         \* state field of a freshly made invoice
NotificationTypes == {"incoming", "outgoing"}
PersistedId == 1                  \* payment hash of the invoice found on disk
ForeignId == 9                    \* an invoice of the upstream wallet that is not ours
FarExpiry == 5000                 \* an expiry (seconds) a very long way ahead
ExpiryValues == {None, 1, 3, FarExpiry}
InvoiceTtl == 2                   \* upstream invoices expire InvoiceTtl seconds after creation
MsPerSecond == 1000               \* Date.now() counts milliseconds

WriteOutcomes == {TRUE}           \* writeFileSync returns (TRUE) or throws (FALSE)
StartOutcomes == BOOLEAN          \* service.start() resolves (TRUE) or rejects (FALSE)


VARIABLES
  pc,             \* position of the top-level script
  balancesFile,   \* balances.json
  pendingFile,    \* pending.json
  balances,       \* let balances: Record<string, number>
  pending,        \* let pending: (Transaction & {owner})[]
  notifHandler,   \* upstream.notification("payment_received", ...) is registered
  clientServices, \* keys of the clientServices map
  instances,      \* WalletService objects constructed, per client
  started,        \* clients with a service whose start() has resolved
  loopKeys,       \* keys the reinstate loop has still to visit
  inflight,       \* pay_invoice handlers suspended at their await on the upstream wallet
  issued,         \* invoices the upstream wallet created for this service: id -> owner, tx
  nPay, nInv,     \* calls forwarded so far
  ledger,         \* history: loaded balance + credits - amounts of successful pay_invoice
  funds,          \* history: loaded balance + credits - what the upstream wallet paid out
  reconciled,     \* history: <<settled invoice, entry credited for it>>, one pair per credit
  writeFailed,    \* history: some writeFileSync threw
  event           \* the last handler step and what it answered

store == <<balancesFile, pendingFile, balances, pending>>
svc == <<notifHandler, clientServices, instances, started, loopKeys>>
hist == <<ledger, funds, reconciled>>
vars == <<pc, store, svc, inflight, issued, nPay, nInv, hist, writeFailed, event>>

\* ------------------------------------------------------------- data types
Tx(id, dh, amt, exp, st) ==
  [payment_hash |-> id, invoice |-> id, description_hash |-> dh,
   amount |-> amt, expires_at |-> exp, state |-> st]

WithOwner(tx, owner) ==
  [payment_hash |-> tx.payment_hash, invoice |-> tx.invoice,
   description_hash |-> tx.description_hash, amount |-> tx.amount,
   expires_at |-> tx.expires_at, state |-> tx.state, owner |-> owner]

\* a pay_invoice handler suspended at `await upstream.payInvoice(...)`: its
\* locals and its parameters
Call(c, cb, amt, pa, ia) ==
  [client |-> c, clientBalance |-> cb, amount |-> amt,
   paramAmount |-> pa, invoiceAmount |-> ia]

\* what a step did and answered; notify names the client a payment_received
\* notification was pushed to
Ev(op, c, res, amt, settled, entry) ==
  [op |-> op, client |-> c, result |-> res, amount |-> amt,
   settled |-> settled, entry |-> entry, notify |-> ""]

\* const client = clientServices.get(owner); if (client) client.notify(...)
Notify(ev, services, owner) ==
  IF owner \in services THEN [ev EXCEPT !.notify = owner] ELSE ev

\* balances[c] || 0
Bal(b, c) == IF c \in DOMAIN b THEN b[c] ELSE 0

\* balances[c] = v
SetBal(b, c, v) == [k \in (DOMAIN b) \cup {c} |-> IF k = c THEN v ELSE b[k]]

ZeroMap == [c \in Clients |-> 0]

\* ----------------------------------------------------------- persistence
\* mutant: the write put off
WrittenLater(ok, file, content) == file

\* writeFileSync inside try/catch: the file takes the new content, or the
\* write throws, the error is logged and the file keeps its content.
Written(ok, file, content) == IF ok THEN content ELSE file

\* ------------------------------------------------------------------ Init
\* What an earlier run can have left on disk: balances of both clients or of
\* A alone, and at most one invoice made for A.  The earlier upstream wallet
\* may not have reported a state for it.
BalancesAB == [c \in {"A", "B"} |-> IF c = "A" THEN 100 ELSE 0]
BalancesA == [c \in {"A"} |-> 100]
Persisted(e, st) == << WithOwner(Tx(PersistedId, 1, 50, e, st), "A") >>

InitFiles ==
  { <<BalancesAB, << >> >>, <<BalancesA, << >> >> }
  \cup { <<BalancesAB, Persisted(e, "pending")>> : e \in ExpiryValues }
  \cup { <<BalancesAB, Persisted(FarExpiry, "absent")>> }

Init ==
  /\ pc = "start"
  /\ \E f \in InitFiles : balancesFile = f[1] /\ pendingFile = f[2]
  /\ balances = << >>
  /\ pending = << >>
  /\ notifHandler = FALSE
  /\ clientServices = {}
  /\ instances = ZeroMap
  /\ started = {}
  /\ loopKeys = << >>
  /\ inflight = EmptyBag
  /\ issued = [i \in {pendingFile[k].payment_hash : k \in DOMAIN pendingFile} |->
                 CHOOSE p \in {pendingFile[k] : k \in DOMAIN pendingFile} : p.payment_hash = i]
  /\ nPay = 0
  /\ nInv = 0
  /\ ledger = ZeroMap
  /\ funds = ZeroMap
  /\ reconciled = {}
  /\ writeFailed = FALSE
  /\ event = Ev("none", "", "none", 0, 0, 0)

\* ------------------------------------------------------ per-client service
\* createWalletService up to its await on service.start(): a zero balance is
\* written for a client without one, a WalletService is constructed and put
\* in the map (replacing the one that was there).
NeedsBalance(b, c) == c \notin DOMAIN b

CreateWalletService(c, w) ==
  /\ balances' = IF NeedsBalance(balances, c) THEN SetBal(balances, c, 0) ELSE balances
  /\ balancesFile' = IF NeedsBalance(balances, c)
                        THEN Written(w, balancesFile, balances')
                        ELSE balancesFile
  /\ writeFailed' = (writeFailed \/ (NeedsBalance(balances, c) /\ ~w))
  /\ instances' = [instances EXCEPT ![c] = @ + 1]
  /\ clientServices' = clientServices \cup {c}

\* ------------------------------------------------------------------ prune
DateNow(t) == t * MsPerSecond

\* mutant: the comparison the wrong way round
KeepPendingInverted(p, t) == p.expires_at # None /\ p.expires_at < t

\* (p) => p.expires_at && p.expires_at > now
KeepPending(p, t) == p.expires_at # None /\ p.expires_at > t

\* pending.filter(...)
Pruned(pend, t) == LET K(p) == KeepPending(p, t) IN SelectSeq(pend, K)

\* ----------------------------------------------------------------- startup
\* Top of the script up to the first await: both files are read.
Load ==
  /\ pc = "start"
  /\ pc' = "connect"
  /\ balances' = balancesFile
  /\ pending' = pendingFile
  /\ ledger' = [c \in Clients |-> Bal(balancesFile, c)]
  /\ funds' = ledger'
  /\ event' = Ev("load", "", "ok", 0, 0, 0)
  /\ UNCHANGED <<balancesFile, pendingFile, svc, inflight, issued, nPay, nInv,
                 reconciled, writeFailed>>

\* await WalletConnect.fromConnectURI(connectUri)
Connect ==
  /\ pc = "connect"
  /\ \E ok \in BOOLEAN :
       /\ pc' = IF ok THEN "waitService" ELSE "exited"
       /\ event' = Ev("connect", "", IF ok THEN "ok" ELSE "StartupError", 0, 0, 0)
  /\ UNCHANGED <<store, svc, inflight, issued, nPay, nInv, hist, writeFailed>>

\* await upstream.waitForService()
WaitForService ==
  /\ pc = "waitService"
  /\ \E ok \in BOOLEAN :
       /\ pc' = IF ok THEN "supports" ELSE "exited"
       /\ event' = Ev("waitForService", "", IF ok THEN "ok" ELSE "StartupError", 0, 0, 0)
  /\ UNCHANGED <<store, svc, inflight, issued, nPay, nInv, hist, writeFailed>>

\* await upstream.supportsNotifications(), then the handler is registered
SupportsNotifications ==
  /\ pc = "supports"
  /\ pc' = "identity"
  /\ \E sup \in BOOLEAN :
       /\ notifHandler' = sup
       /\ event' = Ev("supportsNotifications", "", IF sup THEN "yes" ELSE "no", 0, 0, 0)
  /\ UNCHANGED <<store, clientServices, instances, started, loopKeys, inflight,
                 issued, nPay, nInv, hist, writeFailed>>

\* Object.keys(balances)
KeysOf(b) == LET In(c) == c \in DOMAIN b IN SelectSeq(KeyOrder, In)

\* One turn of the loop `for (const clientPubkey of Object.keys(balances))`:
\* the service of the first key left is created and the script awaits its
\* start (that key stays at the head of loopKeys during the await); with no
\* key left prunePending() runs and the script goes on to print its banner
\* and register the SIGINT handler.
LoopStep(keys, w) ==
  IF keys # << >>
    THEN /\ CreateWalletService(Head(keys), w)
         /\ loopKeys' = keys
         /\ pc' = "reinstate"
         /\ event' = Ev("reinstate", Head(keys), "ok", 0, 0, 0)
         /\ UNCHANGED <<pending, pendingFile>>
    ELSE /\ pending' = Pruned(pending, DateNow(StartupTime))
         /\ pendingFile' = Written(w, pendingFile, pending')
         /\ writeFailed' = (writeFailed \/ ~w)
         /\ loopKeys' = << >>
         /\ pc' = "running"
         /\ event' = Ev("prune", "", "ok", 0, 0, 0)
         /\ UNCHANGED <<balances, balancesFile, instances, clientServices>>

\* await signer.getPublicKey() resolved: the subscription is created and
\* subscribed, and the loop starts over the keys of balances.
Subscribe ==
  /\ pc = "identity"
  /\ \E w \in WriteOutcomes : LoopStep(KeysOf(balances), w)
  /\ UNCHANGED <<notifHandler, started, inflight, issued, nPay, nInv, hist>>

\* service.start() of the service the loop waits for
AfterStart(ok, s, c) == IF ok THEN s \cup {c} ELSE s

\* await createWalletService(clientPubkey) returned, or threw and the catch
\* block logged the failure; the loop goes on either way
ReinstateNext ==
  /\ pc = "reinstate"
  /\ \E ok \in StartOutcomes : started' = AfterStart(ok, started, Head(loopKeys))
  /\ \E w \in WriteOutcomes : LoopStep(Tail(loopKeys), w)
  /\ UNCHANGED <<notifHandler, inflight, issued, nPay, nInv, hist>>

Subscribed == pc \in {"reinstate", "running"}

\* tap((e) => ...) on an inbound request event of client c; nothing awaits
\* the start of the service it creates
InboundEvent(c) ==
  /\ Subscribed
  /\ c \notin clientServices
  /\ \E w \in WriteOutcomes : CreateWalletService(c, w)
  /\ started' = started \cup {c}
  /\ event' = Ev("inbound", c, "created", 0, 0, 0)
  /\ UNCHANGED <<pc, pending, pendingFile, notifHandler, loopKeys, inflight, issued,
                 nPay, nInv, hist>>

\* --------------------------------------------------------- reconciliation
\* the predicate given to pending.find(...)
Matches(p, n) ==
  \/ (p.payment_hash # None /\ n.payment_hash # None /\ p.payment_hash = n.payment_hash)
  \/ (p.invoice # None /\ n.invoice # None /\ p.invoice = n.invoice)
  \/ (p.description_hash # None /\ n.description_hash # None
        /\ p.description_hash = n.description_hash)

\* mutant: the first entry when nothing matches
FindExistingOrFirst(pend, n) ==
  IF \E i \in DOMAIN pend : Matches(pend[i], n)
    THEN CHOOSE i \in DOMAIN pend :
           /\ Matches(pend[i], n)
           /\ \A j \in 1..(i-1) : ~Matches(pend[j], n)
    ELSE IF pend # << >> THEN 1 ELSE 0

\* pending.find(...): index of the first matching entry, 0 for undefined
FindExisting(pend, n) ==
  IF \E i \in DOMAIN pend : Matches(pend[i], n)
    THEN CHOOSE i \in DOMAIN pend :
           /\ Matches(pend[i], n)
           /\ \A j \in 1..(i-1) : ~Matches(pend[j], n)
    ELSE 0

\* balances[owner] = (balances[owner] || 0) + amount
Credit(b, owner, amt) == SetBal(b, owner, Bal(b, owner) + amt)

\* pending.filter((p) => p !== existing)
RemoveAt(pend, i) == SubSeq(pend, 1, i - 1) \o SubSeq(pend, i + 1, Len(pend))

\* if (existing) on the notification path
CreditsOnPush(pend, i) == i # 0

\* if (existing?.state === "pending") on the lookup path
CreditsOnLookup(pend, i) == i # 0 /\ pend[i].state = "pending"

\* the credit-and-remove block, with its two saves
Reconcile(n, i, w1, w2) ==
  LET e == pending[i] IN
  /\ balances' = Credit(balances, e.owner, e.amount)
  /\ balancesFile' = Written(w1, balancesFile, balances')
  /\ pending' = RemoveAt(pending, i)
  /\ pendingFile' = Written(w2, pendingFile, pending')
  /\ writeFailed' = (writeFailed \/ ~w1 \/ ~w2)
  /\ ledger' = [ledger EXCEPT ![e.owner] = @ + e.amount]
  /\ funds' = [funds EXCEPT ![e.owner] = @ + e.amount]
  /\ reconciled' = reconciled \cup {<<n.payment_hash, e.payment_hash>>}

\* the balances and the pending table after the credit-and-remove block
Settle(b, pend, i, credits) ==
  IF credits THEN <<Credit(b, pend[i].owner, pend[i].amount), RemoveAt(pend, i)>>
  ELSE <<b, pend>>

\* the payment_received handler on an incoming notification n
OnPush(b, pend, n) ==
  LET i == FindExisting(pend, n) IN Settle(b, pend, i, CreditsOnPush(pend, i))

\* lookup_invoice on a check n whose state is settled
OnLookup(b, pend, n) ==
  LET i == FindExisting(pend, n) IN Settle(b, pend, i, CreditsOnLookup(pend, i))

\* what the upstream wallet can report as paid: an invoice it made for this
\* service, or one it made for somebody else
Transactions ==
  { Tx(id, issued[id].description_hash, issued[id].amount, issued[id].expires_at, "settled") :
      id \in DOMAIN issued }
  \cup { Tx(ForeignId, dh, 50, None, "settled") : dh \in DescHashes }

Alive == pc \notin {"start", "exited"}

\* upstream.notification("payment_received", (notification) => ...)
PaymentReceived(type, n, w1, w2) ==
  LET i == FindExisting(pending, n) IN
  /\ Alive
  /\ notifHandler
  /\ IF type # "incoming"
       THEN /\ event' = Ev("payment_received", "", "ignored", 0, 0, 0)
            /\ UNCHANGED <<store, hist, writeFailed>>
       ELSE IF CreditsOnPush(pending, i)
         THEN /\ Reconcile(n, i, w1, w2)
              /\ event' = Notify(Ev("payment_received", pending[i].owner, "credited",
                                     pending[i].amount, n.payment_hash, pending[i].payment_hash),
                                  clientServices, pending[i].owner)
         ELSE /\ event' = Ev("payment_received", "", "dropped", 0, 0, 0)
              /\ UNCHANGED <<store, hist, writeFailed>>
  /\ UNCHANGED <<pc, svc, inflight, issued, nPay, nInv>>

\* ---------------------------------------------------------------- handlers
\* inflight is the bag of calls whose handler is suspended at its await
Awaiting == BagToSet(inflight)
CanSuspend == BagCardinality(inflight) < MaxInFlight
Suspend(call) == inflight' = inflight (+) SetToBag({call})
Resume(call) == inflight' = inflight (-) SetToBag({call})
\* Clients send their method requests once the service announces itself as
\* running; what they send earlier is seen by the subscription's tap only.
\* A request is answered by a started service of its client.
Serving(c) == pc = "running" /\ c \in started

\* get_balance
GetBalance(c) ==
  /\ Serving(c)
  /\ event' = Ev("get_balance", "", "ok", 0, 0, 0)
  /\ UNCHANGED <<pc, store, svc, inflight, issued, nPay, nInv, hist, writeFailed>>

\* get_info: the handler holds no state of its own and reads none before
\* its await, so the request and the outcome of upstream.getInfo() are one step
GetInfo(c, ok) ==
  /\ Serving(c)
  /\ event' = Ev("get_info", "", IF ok THEN "ok" ELSE "UpstreamError", 0, 0, 0)
  /\ UNCHANGED <<pc, store, svc, inflight, issued, nPay, nInv, hist, writeFailed>>

\* const amount = params.amount || 0
AmountOf(paramAmount) == IF paramAmount = None THEN 0 ELSE paramAmount

\* mutant: the balance check left out
InsufficientNever(amount, clientBalance) == FALSE

\* mutant: the comparison the wrong way round
InsufficientInverted(amount, clientBalance) == amount < clientBalance

\* if (amount > clientBalance) throw new Error("Insufficient balance")
Insufficient(amount, clientBalance) == amount > clientBalance

\* pay_invoice, up to the await: the balance is read and checked
PayInvoiceCall(c, paramAmount, invoiceAmount) ==
  LET clientBalance == Bal(balances, c)
      amount == AmountOf(paramAmount) IN
  /\ Serving(c)
  /\ IF Insufficient(amount, clientBalance)
       THEN /\ event' = Ev("pay_invoice", c, "InsufficientBalance", amount, 0, 0)
            /\ UNCHANGED <<inflight, nPay>>
       ELSE /\ CanSuspend
            /\ nPay < MaxPay
            /\ Suspend(Call(c, clientBalance, amount, paramAmount, invoiceAmount))
            /\ nPay' = nPay + 1
            /\ event' = Ev("pay_invoice", "", "forwarded", 0, 0, 0)
  /\ UNCHANGED <<pc, store, svc, issued, nInv, hist, writeFailed>>

\* balances[clientPubkey] = clientBalance - amount
Deduct(b, c, clientBalance, amount) == SetBal(b, c, clientBalance - amount)

\* mutant: the deduction in a finally block, applied on failure too
AfterPayAlways(ok, b, c, clientBalance, amount) == Deduct(b, c, clientBalance, amount)

\* the balances after `await upstream.payInvoice(...)`: a rejected promise
\* leaves the handler at the await
AfterPay(ok, b, c, clientBalance, amount) ==
  IF ok THEN Deduct(b, c, clientBalance, amount) ELSE b

\* the upstream wallet pays the amount asked for, or the invoice's own
UpstreamPays(paramAmount, invoiceAmount) ==
  IF paramAmount = None THEN invoiceAmount ELSE paramAmount

\* pay_invoice, upstream.payInvoice(...) settled
PayInvoiceReturn(r, ok, w) ==
  /\ pc # "exited"
  /\ Resume(r)
  /\ balances' = AfterPay(ok, balances, r.client, r.clientBalance, r.amount)
  /\ balancesFile' = IF ok THEN Written(w, balancesFile, balances') ELSE balancesFile
  /\ writeFailed' = (writeFailed \/ (ok /\ ~w))
  /\ ledger' = IF ok THEN [ledger EXCEPT ![r.client] = @ - r.amount] ELSE ledger
  /\ funds' = IF ok THEN [funds EXCEPT ![r.client] = @ - UpstreamPays(r.paramAmount, r.invoiceAmount)]
                     ELSE funds
  /\ event' = Ev("pay_invoice", r.client, IF ok THEN "ok" ELSE "UpstreamError", r.amount, 0, 0)
  /\ UNCHANGED reconciled
  /\ UNCHANGED <<pc, pending, pendingFile, svc, issued, nPay, nInv>>

\* mutant: unshift instead of push
PushPendingFront(pend, tx, owner) == <<WithOwner(tx, owner)>> \o pend

\* pending.push({ ...transaction, owner: clientPubkey })
PushPending(pend, tx, owner) == Append(pend, WithOwner(tx, owner))

\* the upstream wallet gives every invoice a payment hash of its own
FreshId == PersistedId + Cardinality(DOMAIN issued \ {PersistedId}) + 1

\* make_invoice: nothing is read before the await on upstream.makeInvoice, so
\* the request and the outcome of the upstream call are one step
MakeInvoice(c, amt, dh, ok, st, w) ==
  LET tx == Tx(FreshId, dh, amt, StartupTime + InvoiceTtl, st) IN
  /\ Serving(c)
  /\ IF ok
       THEN /\ nInv < MaxInv
            /\ nInv' = nInv + 1
            /\ pending' = PushPending(pending, tx, c)
            /\ pendingFile' = Written(w, pendingFile, pending')
            /\ writeFailed' = (writeFailed \/ ~w)
            /\ issued' = [i \in (DOMAIN issued) \cup {FreshId} |->
                            IF i = FreshId THEN WithOwner(tx, c) ELSE issued[i]]
            /\ event' = Ev("make_invoice", c, "ok", amt, 0, FreshId)
       ELSE /\ event' = Ev("make_invoice", "", "UpstreamError", 0, 0, 0)
            /\ UNCHANGED <<pending, pendingFile, writeFailed, issued, nInv>>
  /\ UNCHANGED <<pc, balances, balancesFile, svc, inflight, nPay, hist>>

\* lookup_invoice: nothing is read before the await on upstream.lookupInvoice,
\* so the request and the outcome of the upstream call are one step
LookupInvoice(c, tx, outcome, w1, w2) ==
  LET ok == outcome # "error"
      check == [tx EXCEPT !.state = outcome]
      i == FindExisting(pending, check) IN
  /\ Serving(c)
  /\ IF ~ok
       THEN /\ event' = Ev("lookup_invoice", "", "UpstreamError", 0, 0, 0)
            /\ UNCHANGED <<store, hist, writeFailed>>
       ELSE IF check.state = "settled" /\ CreditsOnLookup(pending, i)
         THEN /\ Reconcile(check, i, w1, w2)
              /\ event' = Ev("lookup_invoice", pending[i].owner, "credited",
                              pending[i].amount, tx.payment_hash, pending[i].payment_hash)
         ELSE /\ event' = Ev("lookup_invoice", "", "ok", 0, 0, 0)
              /\ UNCHANGED <<store, hist, writeFailed>>
  /\ UNCHANGED <<pc, svc, inflight, issued, nPay, nInv>>

\* ------------------------------------------------------------ environment
\* process.on("SIGINT", ...): every service is stopped and the process
\* exits; what the process held in memory is gone, the two files stay.
Sigint ==
  /\ pc = "running"
  /\ pc' = "exited"
  /\ balances' = << >>
  /\ pending' = << >>
  /\ notifHandler' = FALSE
  /\ clientServices' = {}
  /\ instances' = ZeroMap
  /\ started' = {}
  /\ inflight' = EmptyBag
  /\ event' = Ev("SIGINT", "", "exit", 0, 0, 0)
  /\ UNCHANGED <<balancesFile, pendingFile, loopKeys, issued, nPay, nInv, hist, writeFailed>>

Next ==
  \/ Load
  \/ Connect
  \/ WaitForService
  \/ SupportsNotifications
  \/ Subscribe
  \/ ReinstateNext
  \/ \E c \in Clients : InboundEvent(c)
  \/ \E type \in NotificationTypes, n \in Transactions, w1, w2 \in WriteOutcomes :
       PaymentReceived(type, n, w1, w2)
  \/ \E c \in Clients : GetBalance(c)
  \/ \E c \in Clients, ok \in BOOLEAN : GetInfo(c, ok)
  \/ \E c \in Clients, pa \in PayAmounts, ia \in InvoiceOwnAmounts : PayInvoiceCall(c, pa, ia)
  \/ \E r \in Awaiting, ok \in BOOLEAN, w \in WriteOutcomes : PayInvoiceReturn(r, ok, w)
  \/ \E c \in Clients, amt \in MakeAmounts, dh \in DescHashes, ok \in BOOLEAN,
        st \in MakeStates, w \in WriteOutcomes :
       MakeInvoice(c, amt, dh, ok, st, w)
  \/ \E c \in Clients, tx \in Transactions, outcome \in LookupOutcomes,
        w1, w2 \in WriteOutcomes :
       LookupInvoice(c, tx, outcome, w1, w2)
  \/ Sigint

Spec == Init /\ [][Next]_vars

\* ------------------------------------------------- sequential executions
\* Requests that arrive one after the other: nothing else runs while a
\* pay_invoice awaits the upstream wallet.  The amount parameter may be absent
\* or zero; the upstream wallet then pays the amount the invoice carries.
SeqPayAmounts == {None, 60, 150}

Sequential == inflight = EmptyBag

NextSeq ==
  \/ Load
  \/ Connect
  \/ WaitForService
  \/ SupportsNotifications
  \/ Subscribe
  \/ ReinstateNext
  \/ \E c \in Clients : InboundEvent(c)
  \/ \E type \in NotificationTypes, n \in Transactions, w1, w2 \in WriteOutcomes :
       Sequential /\ PaymentReceived(type, n, w1, w2)
  \/ \E c \in Clients : Sequential /\ GetBalance(c)
  \/ \E c \in Clients, ok \in BOOLEAN : Sequential /\ GetInfo(c, ok)
  \/ \E c \in Clients, pa \in SeqPayAmounts, ia \in InvoiceOwnAmounts :
       Sequential /\ PayInvoiceCall(c, pa, ia)
  \/ \E r \in Awaiting, ok \in BOOLEAN, w \in WriteOutcomes : PayInvoiceReturn(r, ok, w)
  \/ \E c \in Clients, amt \in MakeAmounts, dh \in DescHashes, ok \in BOOLEAN,
        st \in MakeStates, w \in WriteOutcomes :
       Sequential /\ MakeInvoice(c, amt, dh, ok, st, w)
  \/ \E c \in Clients, tx \in Transactions, outcome \in LookupOutcomes,
        w1, w2 \in WriteOutcomes :
       Sequential /\ LookupInvoice(c, tx, outcome, w1, w2)
  \/ Sequential /\ Sigint

SpecSeq == Init /\ [][NextSeq]_vars

\* ------------------------------------------------------ crash and restart
\* The credit-and-remove block writes balances.json, then pending.json.  Here
\* it is taken in two steps so that the process can stop between the two
\* writes; nothing else runs between them.  A stopped process can be started
\* again: it finds the two files as they were left.
BetweenSaves == event.result = "crediting"

\* the position of `existing` in the table
IndexOf(pend, id) == CHOOSE i \in DOMAIN pend : pend[i].payment_hash = id

\* balances[existing.owner] += existing.amount; saveBalances()
CreditStep(path, c, n, w1) ==
  LET i == FindExisting(pending, n) IN
  /\ ~BetweenSaves
  /\ i # 0 => Bal(balances, pending[i].owner) < MaxBalance
  /\ IF path = "payment_received"
       THEN Alive /\ notifHandler /\ CreditsOnPush(pending, i)
       ELSE Serving(c) /\ CreditsOnLookup(pending, i)
  /\ balances' = Credit(balances, pending[i].owner, pending[i].amount)
  /\ balancesFile' = Written(w1, balancesFile, balances')
  /\ writeFailed' = (writeFailed \/ ~w1)
  /\ ledger' = [ledger EXCEPT ![pending[i].owner] = @ + pending[i].amount]
  /\ funds' = [funds EXCEPT ![pending[i].owner] = @ + pending[i].amount]
  /\ reconciled' = reconciled \cup {<<n.payment_hash, pending[i].payment_hash>>}
  /\ event' = Ev(path, pending[i].owner, "crediting", pending[i].amount,
                 n.payment_hash, pending[i].payment_hash)
  /\ UNCHANGED <<pc, pending, pendingFile, svc, inflight, issued, nPay, nInv>>

\* pending = pending.filter((p) => p !== existing); savePending()
RemoveStep(w2) ==
  /\ BetweenSaves
  /\ pending' = RemoveAt(pending, IndexOf(pending, event.entry))
  /\ pendingFile' = Written(w2, pendingFile, pending')
  /\ writeFailed' = (writeFailed \/ ~w2)
  /\ event' = [event EXCEPT !.result = "credited"]
  /\ UNCHANGED <<pc, balances, balancesFile, svc, inflight, issued, nPay, nInv, hist>>

\* the process is killed, or the machine stops: memory is lost, files stay
Crash ==
  /\ pc \notin {"start", "exited"}
  /\ pc' = "exited"
  /\ balances' = << >>
  /\ pending' = << >>
  /\ notifHandler' = FALSE
  /\ clientServices' = {}
  /\ instances' = ZeroMap
  /\ started' = {}
  /\ loopKeys' = << >>
  /\ inflight' = EmptyBag
  /\ event' = Ev("crash", "", "exit", 0, 0, 0)
  /\ UNCHANGED <<balancesFile, pendingFile, issued, nPay, nInv, hist, writeFailed>>

\* the service is started again on the same data folder
Restart ==
  /\ pc = "exited"
  /\ pc' = "start"
  /\ balances' = << >>
  /\ pending' = << >>
  /\ event' = Ev("restart", "", "ok", 0, 0, 0)
  /\ UNCHANGED <<balancesFile, pendingFile, svc, inflight, issued, nPay, nInv, hist,
                 writeFailed>>

NextCrash ==
  \/ ~BetweenSaves /\ Load
  \/ ~BetweenSaves /\ Connect
  \/ ~BetweenSaves /\ WaitForService
  \/ ~BetweenSaves /\ SupportsNotifications
  \/ ~BetweenSaves /\ Subscribe
  \/ ~BetweenSaves /\ ReinstateNext
  \/ \E c \in Clients, amt \in MakeAmounts, dh \in DescHashes, ok \in BOOLEAN,
        st \in MakeStates, w \in WriteOutcomes :
       ~BetweenSaves /\ MakeInvoice(c, amt, dh, ok, st, w)
  \/ \E path \in {"payment_received", "lookup_invoice"}, c \in Clients,
        n \in Transactions, w1 \in WriteOutcomes :
       CreditStep(path, c, n, w1)
  \/ \E w2 \in WriteOutcomes : RemoveStep(w2)
  \/ Crash
  \/ Restart

SpecCrash == Init /\ [][NextCrash]_vars

\* ================================================================= claims
StoreSame == balances' = balances /\ balancesFile' = balancesFile
             /\ pending' = pending /\ pendingFile' = pendingFile

NonNegative(b) == \A c \in DOMAIN b : b[c] >= 0

\* C1: no balance is ever negative, in memory or in balances.json, under any
\* interleaving of pay_invoice, make_invoice, lookup_invoice and settlements.
C1_BalancesNeverNegative == NonNegative(balances) /\ NonNegative(balancesFile)

\* a deduction was applied while another pay_invoice of the same client was
\* still awaiting the upstream wallet
C1_Witness ==
  /\ event.op = "pay_invoice" /\ event.result = "ok"
  /\ \E r \in Awaiting : r.client = event.client
  /\ Bal(balances, event.client) = 40

RECURSIVE SumAmounts(_, _)
SumAmounts(bag, rs) ==
  IF rs = {} THEN 0
  ELSE LET r == CHOOSE x \in rs : TRUE
       IN r.amount * bag[r] + SumAmounts(bag, rs \ {r})

\* the amounts of the pay_invoice calls of client c now awaiting the upstream wallet
AwaitedBy(c) == SumAmounts(inflight, {r \in Awaiting : r.client = c})

\* C2: of two pay_invoice calls of one client in flight together whose amounts
\* exceed the balance together, only one is forwarded to the upstream wallet:
\* what a client has awaiting the upstream wallet never exceeds its balance.
C2_ConcurrentPaysWithinBalance ==
  \A c \in Clients : AwaitedBy(c) <= Bal(balances, c)

\* C3: after any sequence of operations every balance is the loaded balance
\* plus the credited settlements minus the amounts of the successful
\* pay_invoice calls.
C3_BalanceIsLedger ==
  pc \notin {"start", "exited"} => \A c \in Clients : Bal(balances, c) = ledger[c]

\* C4: a pay_invoice whose amount exceeds the balance is answered with
\* "Insufficient balance" and is not forwarded to the upstream wallet, and the
\* rejection changes no balance, no pending entry and no file.
C4_OverspendRejected ==
  [][ /\ (event'.op = "pay_invoice" /\ event'.result = "InsufficientBalance")
         => /\ event'.amount > Bal(balances, event'.client)
            /\ StoreSame /\ inflight' = inflight /\ nPay' = nPay /\ hist' = hist
      /\ \A r \in BagToSet(inflight') :
           CopiesIn(r, inflight') > CopiesIn(r, inflight)
             => r.amount <= Bal(balances, r.client) ]_vars

\* the scenario of the specification: balance 100, amount 150
C4_Witness ==
  /\ event.op = "pay_invoice" /\ event.result = "InsufficientBalance"
  /\ event.client = "A" /\ event.amount = 150
  /\ Bal(balances, "A") = 100

\* C5: a settlement that has credited a pending invoice credits nothing when
\* it is delivered again, on either path.
C5_RedeliveryCreditsNothing ==
  [][ event'.result = "credited" => \A q \in reconciled : q[1] # event'.settled ]_vars

\* C6: the entry credited and removed for a settled invoice of this service
\* is the entry of that invoice, and the client credited is its owner.
C6_CreditGoesToOwner ==
  [][ ( /\ event'.result = "credited"
        /\ \E i \in DOMAIN pending : pending[i].payment_hash = event'.settled )
      => /\ event'.entry = event'.settled
         /\ event'.client = issued[event'.settled].owner
         /\ \A c \in Clients \ {event'.client} : Bal(balances', c) = Bal(balances, c) ]_vars

\* C7: a make_invoice whose upstream call succeeds appends exactly the
\* upstream wallet's transaction, owned by the caller, to the pending table;
\* a failed one leaves the table as it was; neither changes a balance or an
\* existing entry.
C7_MakeInvoiceAppendsOne ==
  [][ event'.op = "make_invoice"
        => /\ balances' = balances /\ balancesFile' = balancesFile
           /\ event'.result = "ok"
                => /\ Len(pending') = Len(pending) + 1
                   /\ SubSeq(pending', 1, Len(pending)) = pending
                   /\ pending'[Len(pending')] = issued'[event'.entry]
                   /\ event'.entry \notin DOMAIN issued
                   /\ pending'[Len(pending')].owner = event'.client
                   /\ pending'[Len(pending')].amount = event'.amount
           /\ event'.result # "ok" => pending' = pending ]_vars

\* an invoice was appended behind an entry that was there before
C7_Witness ==
  /\ event.op = "make_invoice" /\ event.result = "ok"
  /\ Len(pending) = 2
  /\ pending[2].payment_hash = event.entry

\* C8: a failed upstream call is answered with the error and changes no
\* balance and no pending entry, in memory or on disk.
C8_UpstreamErrorChangesNothing ==
  [][ event'.result = "UpstreamError" => StoreSame ]_vars

\* upstream.payInvoice failed for a call that had passed the balance check
C8_Witness ==
  /\ event.op = "pay_invoice" /\ event.result = "UpstreamError"
  /\ event.amount = 60 /\ Bal(balances, event.client) = 100

\* the expiry of p has passed when prunePending reads the clock
Expired(p) == p.expires_at # None /\ p.expires_at <= StartupTime

\* C9: prunePending leaves no entry whose expiry has passed, whatever its
\* state, and changes no balance.
C9_PruneDropsExpired ==
  [][ (pc # "running" /\ pc' = "running")
        => /\ \A i \in DOMAIN pending' : ~Expired(pending'[i])
           /\ pendingFile' = pending'
           /\ balances' = balances /\ balancesFile' = balancesFile
           /\ ledger' = ledger ]_vars

\* an expired invoice was on disk, and prunePending has dropped it
C9_Witness ==
  /\ pc = "running" /\ event.op = "prune"
  /\ PersistedId \in DOMAIN issued /\ Expired(issued[PersistedId])
  /\ pending = << >>

\* the invoice found on disk at startup is in the pending table
PersistedPending == \E i \in DOMAIN pending : pending[i].payment_hash = PersistedId

\* C10: after the startup sequence an invoice found on disk whose expiry is
\* in the future is still pending until its settlement arrives, and the
\* settlement then credits its owner.
C10_RestartKeepsPending ==
  ( /\ pc = "running"
    /\ PersistedId \in DOMAIN issued
    /\ issued[PersistedId].expires_at > StartupTime
    /\ \A q \in reconciled : q[2] # PersistedId )
  => PersistedPending

\* C11: when the termination signal ends the process no request is cut off:
\* no pay_invoice is still awaiting the upstream wallet at the exit.
C11_ShutdownCutsNothing ==
  [][ (pc = "running" /\ pc' = "exited") => inflight = EmptyBag ]_vars

\* C12: services exist only once the subscription is established, which
\* follows the upstream connection, its readiness and the identity; requests
\* are answered only after that; and once startup is over every client with
\* a balance entry has a started service.
C12_StartupOrder ==
  /\ clientServices # {} => Subscribed
  /\ event.op \in {"get_balance", "get_info", "pay_invoice", "make_invoice", "lookup_invoice"}
       => pc \in {"running", "exited"}
  /\ pc = "running" => \A c \in DOMAIN balances : c \in started

\* what the upstream wallet reports about the invoice with payment hash id
SettlementOf(id) == {n \in Transactions : n.payment_hash = id}

\* C13: a settlement that matches no pending entry on any key, and a
\* notification that is not incoming, change no balance and no pending entry:
\* a settlement step either changes nothing or credits an entry it matches.
C13_NoMatchNoOp ==
  [][ /\ event'.result \in {"dropped", "ignored"} => (StoreSame /\ hist' = hist)
      /\ (event'.op = "lookup_invoice" /\ event'.result = "ok") => (StoreSame /\ hist' = hist)
      /\ event'.op \in {"payment_received", "lookup_invoice"}
           => event'.result \in {"dropped", "ignored", "ok", "UpstreamError", "credited"}
      /\ event'.result = "credited"
           => \E n \in SettlementOf(event'.settled), i \in DOMAIN pending :
                Matches(pending[i], n) ]_vars

\* a settlement was dropped while an invoice was pending
C13_Witness ==
  /\ event.op = "payment_received" /\ event.result = "dropped"
  /\ pending # << >>

\* C14: while no write fails, both files equal what the process holds in
\* memory after every step.
C14_FilesEqualMemory ==
  pc \notin {"start", "exited"} => (balancesFile = balances /\ pendingFile = pending)

\* a credit and the removal of its entry have both reached the files
C14_Witness ==
  /\ event.result = "credited"
  /\ Bal(balancesFile, event.client) = 150
  /\ pendingFile = << >>

\* C15: every credit pushes a payment notification to the credited client's
\* service if it has one, and to no other.
C15_CreditNotifiesOwner ==
  [][ event'.result = "credited"
        => event'.notify = (IF event'.client \in clientServices THEN event'.client ELSE "") ]_vars

\* C16: a settlement handled as a push notification and handled as a settled
\* lookup_invoice result leave the same balances and the same pending table.
C16_PathsAgree ==
  pc = "running"
    => \A n \in Transactions : OnPush(balances, pending, n) = OnLookup(balances, pending, n)

\* C17: at most one service is constructed for a client in a process lifetime.
C17_OneServicePerClient == \A c \in Clients : instances[c] <= 1

NotExpired(p) == ~Expired(p)

\* C19: prunePending removes the expired entries and no other: the entries
\* whose expiry has not passed, or that carry none, stay as they are and in
\* their order.
C19_PruneKeepsUnexpired ==
  [][ (pc # "running" /\ pc' = "running") => pending' = SelectSeq(pending, NotExpired) ]_vars

\* C18: in a sequential execution the upstream wallet never pays out more for
\* a client than its loaded balance plus its credits, and every balance is
\* that sum less what the upstream wallet paid out for the client.
C18_PayoutWithinFunds ==
  pc \notin {"start", "exited"}
    => \A c \in Clients : funds[c] >= 0 /\ Bal(balances, c) = funds[c]

\* C20: across crashes and restarts no pending invoice is credited twice: the
\* files never leave an invoice both credited and still pending.
C20_NoSecondCredit ==
  [][ event'.result = "crediting" => \A q \in reconciled : q[2] # event'.entry ]_vars

====
